---- MODULE Spec2Model ----
(***************************************************************************)
(* Kconfig resolution (KconfigCounter::parse_kconfig_path) and code        *)
(* correlation (KconfigCounter::parse_code) of auto_script.                *)
(*                                                                         *)
(* A string is a sequence of letters.  The alphabet is coarse: a letter is *)
(* a keyword stem ("config", "def_bool"), an identifier ("FOO"), or one    *)
(* separator (" ", "\t", "/", "\"", "#").  Every string operation of the   *)
(* code (trim, starts_with, contains, the field extractor, the PathBuf     *)
(* operations) is computed on these sequences.                             *)
(***************************************************************************)
EXTENDS Integers, Sequences, FiniteSets, TLC

\* ------------------------------------------------------------------ bounds
\* Lines the Kconfig files of one tree hold together.
MaxKLines == 4
\* Lines the C files of one tree hold together.
MaxCLines == 6
\* Nested calls of parse_kconfig_path the process can hold: each holds an
\* open file and a frame of the stack.
MaxDepth == 3

\* ----------------------------------------------------------------- strings
IsWs(c) == c \in {" ", "\t"}

RECURSIVE trim_start(_)
trim_start(s) ==
    IF s # <<>> /\ IsWs(Head(s)) THEN trim_start(Tail(s)) ELSE s

RECURSIVE trim_end(_)
trim_end(s) ==
    IF s # <<>> /\ IsWs(s[Len(s)]) THEN trim_end(SubSeq(s, 1, Len(s) - 1)) ELSE s

\* str::trim
trim(s) == trim_end(trim_start(s))

\* str::starts_with
starts_with(s, p) == Len(p) <= Len(s) /\ SubSeq(s, 1, Len(p)) = p

\* str::find: the index of the first occurrence of p in s, 0 when there is none
find(s, p) ==
    LET hits == {i \in 1..(Len(s) - Len(p) + 1) : SubSeq(s, i, i + Len(p) - 1) = p}
    IN  IF hits = {} THEN 0 ELSE CHOOSE i \in hits : \A j \in hits : i <= j

\* str::contains
contains(s, p) == find(s, p) # 0

RECURSIVE trim_matches(_, _)
\* str::trim_matches(c): strips every leading and trailing c
trim_matches(s, c) ==
    IF s # <<>> /\ Head(s) = c THEN trim_matches(Tail(s), c)
    ELSE IF s # <<>> /\ s[Len(s)] = c THEN trim_matches(SubSeq(s, 1, Len(s) - 1), c)
    ELSE s

\* core::utils::get_filed: the remainder of the line after the first occurrence
\* of the keyword, trimmed of surrounding whitespace.
get_filed(line, key) ==
    LET i == find(line, key)
    IN  IF i = 0 THEN <<>>
        ELSE trim(SubSeq(line, i + Len(key), Len(line)))

\* ------------------------------------------------------------------- paths
\* A path is a string whose components are separated by the letter "/".
NoPath == <<"<none>">>

last_sep(p) ==
    LET seps == {i \in 1..Len(p) : p[i] = "/"}
    IN  IF seps = {} THEN 0 ELSE CHOOSE i \in seps : \A j \in seps : j <= i

\* Path::parent: None for the root and for the empty path
parent(p) ==
    IF p = <<>> \/ p = <<"/">> THEN NoPath
    ELSE LET i == last_sep(p)
         IN  IF i = 0 THEN <<>>
             ELSE IF i = 1 THEN <<"/">>
             ELSE SubSeq(p, 1, i - 1)

\* Path::ends_with: child is a whole-component suffix of p
ends_with(p, child) ==
    \/ p = child
    \/ /\ child # <<>> /\ Head(child) # "/"
       /\ Len(p) > Len(child)
       /\ SubSeq(p, Len(p) - Len(child) + 1, Len(p)) = child
       /\ p[Len(p) - Len(child)] = "/"

\* PathBuf::push: an absolute argument replaces the path
push(p, q) ==
    IF q # <<>> /\ Head(q) = "/" THEN q
    ELSE IF p = <<>> \/ p[Len(p)] = "/" THEN p \o q
    ELSE p \o <<"/">> \o q

\* ---------------------------------------------------------------- the tree
\* --kernel-path (main.rs:42) and the version its Makefile gives
Version == <<"6", ".", "9", ".", "5">>
KernelPath == <<"/", "opt", "/", "linux-">> \o Version
Arch == <<"riscv">>

\* A kernel tree unpacked inside another of the same version
KernelInner == push(KernelPath, <<"linux-">> \o Version)

\* main.rs:118-121, 143-146: <kernel_path>/arch/<arch>/Kconfig
Entry(kernel_path) == push(push(push(kernel_path, <<"arch">>), Arch), <<"Kconfig">>)
RootKconfig == Entry(KernelPath)
InnerKconfig == Entry(KernelInner)

\* main.rs:91-92: <kernel_path>/Makefile
Makefile(kernel_path) == push(kernel_path, <<"Makefile">>)

\* The Makefile lines that occur in the trees
MK_VERSION == <<"VERSION = ">>
MK_PATCHLEVEL == <<"PATCHLEVEL = ">>
MK_SUBLEVEL == <<"SUBLEVEL = ">>
MK_comment == <<"#", " ", "SPDX">>
MK_v6 == MK_VERSION \o <<"6">>
MK_p9 == MK_PATCHLEVEL \o <<"9">>
MK_s5 == MK_SUBLEVEL \o <<"5">>
MK_s6 == MK_SUBLEVEL \o <<"6">>
MakeGood == <<MK_comment, MK_v6, MK_p9, MK_s5>>
MakeOther == <<MK_v6, MK_p9, MK_s6>>
MakeShort == <<MK_comment, MK_v6, MK_p9>>

\* No value: the None of an Option, the Err of a Result
None == <<"<none>">>

RECURSIVE last_field(_, _, _)
\* main.rs:58-74: the value the last line that starts with `key` gives
last_field(lines, key, found) ==
    IF lines = <<>> THEN found
    ELSE LET line == Head(lines)
             hit == /\ ~starts_with(trim_start(line), <<"#">>)
                    /\ starts_with(trim(line), key)
         IN  last_field(Tail(lines), key,
                        IF hit THEN trim(SubSeq(line, Len(key) + 1, Len(line)))
                        ELSE found)

\* main.rs:50-82: fetch_kernel_version on the lines of the Makefile
fetch_kernel_version(lines) ==
    LET v == last_field(lines, MK_VERSION, None)
        p == last_field(lines, MK_PATCHLEVEL, None)
        s == last_field(lines, MK_SUBLEVEL, None)
    IN  IF None \in {v, p, s} THEN None
        ELSE v \o <<".">> \o p \o <<".">> \o s

RECURSIVE ascend(_, _)
\* kconfig_counter.rs:77-83: the ascent from the entry file to linux-<version>
ascend(kernel_path, kernel_version) ==
    CHOOSE root \in {IF up = NoPath THEN kernel_path
                     ELSE IF ends_with(up, kernel_version) THEN up
                     ELSE ascend(up, kernel_version) :
                     up \in {parent(kernel_path)}} : TRUE

\* ascent_start from the file that holds the `source` line
ascent_start_call(self_kconfig_path, call_kconfig_path) == call_kconfig_path

\* kconfig_counter.rs:74: the ascent starts from the field kconfig_path of the
\* counter, not from the parameter kconfig_path of the call
ascent_start(self_kconfig_path, call_kconfig_path) == self_kconfig_path

\* kconfig_counter.rs:74-87: the path a `source` line names
source_target(entry, kernel_version, trim_line) ==
    CHOOSE target \in
        {push(kernel_path, source_path) :
            kernel_path \in {ascend(from, <<"linux-">> \o kernel_version) :
                                from \in {entry}},
            source_path \in {trim_matches(field, "\"") :
                                field \in {get_filed(line, <<"source">>) :
                                              line \in {trim_line}}}} :
        TRUE

\* passes_filter with the test of the path dropped
passes_filter_any(all, path) == TRUE

\* kconfig_counter.rs:90: the filter a `source` target has to pass
passes_filter(all, path) == all \/ contains(path, <<"/", "arch", "/">>)

\* with_dir without `.parent().unwrap()`
with_dir_of_itself(dirs, path) == dirs \cup {path}

\* kconfig_counter.rs:96-97: the target's parent directory joins code_dir
with_dir(dirs, path) == dirs \cup {parent(path)}

\* The `source` targets that occur in the trees
T_socs == <<"arch", "/", "riscv", "/", "Kconfig", ".", "socs">>
T_kernel == <<"arch", "/", "riscv", "/", "kernel", "/", "Kconfig">>
T_drivers == <<"drivers", "/", "Kconfig">>
T_nested == <<"arch", "/", "riscv", "/", "linux-">> \o Version \o <<"/", "Kconfig">>
T_self == <<"arch", "/", "riscv", "/", "Kconfig">>
Targets == {T_socs, T_kernel, T_drivers, T_nested, T_self}

\* The Kconfig lines that occur in the trees
Src(t) == <<"source", " ", "\"">> \o t \o <<"\"">>
L_blank == <<>>
L_comment == <<"#", " ", "config", " ", "OLD">>
L_cfgFOO == <<"config", " ", "FOO">>
L_cfgBAR == <<"config", " ", "BAR">>
L_tabBAR == <<"config", "\t", "BAR">>
L_depBAZ == <<"\t", "depends", " ", "on", " ", "BAZ">>
L_bool == <<"\t", "bool">>
L_defY == <<"\t", "default", " ", "y">>
L_defboolN == <<"\t", "def_bool", " ", "n">>
L_selQUX == <<"\t", "select", " ", "QUX">>

FOO == <<"FOO">>
BAR == <<"BAR">>

VocabResolve == {L_cfgBAR, L_depBAZ, L_selQUX, Src(T_socs), Src(T_drivers)}
VocabAttr == {L_cfgFOO, L_depBAZ, L_bool, L_defY, L_defboolN, L_selQUX}
VocabBlank == {L_blank, L_comment, L_cfgFOO, L_tabBAR, L_bool, L_defY}
KLines == VocabResolve \cup VocabAttr \cup VocabBlank \cup {Src(t) : t \in Targets}

\* The file system root, where the ascent ends when no directory is named
\* linux-<version>
Slash == <<"/">>

KFiles ==
    {RootKconfig, InnerKconfig}
        \cup {push(KernelPath, t) : t \in Targets}
        \cup {push(KernelInner, T_kernel), push(Slash, T_kernel),
              push(parent(push(KernelPath, T_nested)), T_kernel)}

\* The directories of the tree and what read_dir lists in each
D_riscv == push(push(KernelPath, <<"arch">>), Arch)
D_kernel == push(D_riscv, <<"kernel">>)
D_drivers == push(KernelPath, <<"drivers">>)
D_stray == parent(push(Slash, T_kernel))
Dirs == {D_riscv, D_kernel, D_drivers, D_stray}
F_entry == push(D_kernel, <<"entry", ".", "c">>)
F_head == push(D_riscv, <<"head", ".", "h">>)
CFiles == {F_entry, F_head}

Entries(dir) ==
    IF dir = D_riscv THEN {RootKconfig, push(KernelPath, T_socs), F_head, D_kernel}
    ELSE IF dir = D_kernel THEN {push(KernelPath, T_kernel), F_entry}
    ELSE IF dir = D_drivers THEN {push(KernelPath, T_drivers)}
    ELSE IF dir = D_stray THEN {push(Slash, T_kernel)}
    ELSE {}

\* The lines of C that occur in the trees
C_ifdefFOO == <<"#", "ifdef", " ", "CONFIG_", "FOO">>
C_ifdefUNKNOWN == <<"#", "ifdef", " ", "CONFIG_", "UNKNOWN">>
C_endif == <<"#", "endif">>
C_x == <<"\t", "int x;">>
C_y == <<"\t", "y();">>
VocabC == {C_ifdefFOO, C_ifdefUNKNOWN, C_endif, C_x, C_y}

\* A file the run has not looked at yet
Unknown == [kind |-> "unknown", lines |-> <<>>, end |-> "open"]
\* A regular file with the given lines
File(ls) == [kind |-> "file", lines |-> ls, end |-> "eof"]

\* ------------------------------------------------------------------- state
VARIABLES
    args,               \* main.rs Args: kernel_path, code, kconfig, kconfig_code, full
    input,              \* the lines the files of the tree are drawn from
    fs,                 \* the files of the tree, as far as the run has seen them
    pc,                 \* where main is
    version,            \* main's local: what fetch_kernel_version returned
    pass,               \* the block of main that built the KconfigCounter
    file_count,         \* FileCounter field
    search,             \* the active search_dir calls, innermost last
    check_all,          \* KconfigCounter fields
    component,
    code_dir,
    total_components,
    total_code_lines,
    stack,              \* the active parse_kconfig_path calls, innermost last
    opened,             \* the paths File::open was called on
    encountered,        \* the lines reader.lines() yielded, in order
    todo,               \* analyze_code: the directories still to walk
    walk,               \* the active analyze_code_path calls, innermost last
    scan                \* the active parse_code call, if any: its locals

mvars == <<version, pass>>
fvars == <<file_count, search>>
kvars == <<check_all, component, code_dir, total_components, total_code_lines>>
cvars == <<todo, walk, scan>>
vars == <<args, input, fs, pc, mvars, fvars, kvars, stack, opened, encountered, cvars>>

\* main.rs:118-128, 143-153: the kconfig_path field of the KconfigCounter
kconfig_path == Entry(args.kernel_path)

\* ----------------------------------------------------------- stanza parser
\* The keywords, as the code spells them
K_config == <<"config">>
K_config_sp == <<"config", " ">>
K_depends_on == <<"depends", " ", "on">>
K_bool == <<"bool">>
K_default == <<"default">>
K_def_bool == <<"def_bool">>
K_select == <<"select">>
K_source == <<"source">>

\* kconfig_counter.rs:127-134: the record or_insert_with creates
NewStat ==
    [default_value |-> <<>>, select |-> <<>>, depend |-> <<>>,
     value_type |-> "Value", count |-> 0, code_snippets |-> <<>>]

\* The scan state the loop body works on: the table, total_components and the
\* two locals of parse_kconfig_path.
Scan(comp, total, name, upd) ==
    [component |-> comp, total_components |-> total,
     component_name |-> name, update |-> upd]

\* kconfig_counter.rs:112-116
on_update(s, tl) ==
    IF s.update /\ starts_with(tl, K_config)
    THEN [s EXCEPT !.component_name = get_filed(tl, K_config), !.update = FALSE]
    ELSE s

\* on_config with `insert` in the place of `entry(..).or_insert_with`
on_config_resets(s, tl) ==
    IF starts_with(tl, K_config_sp)
    THEN LET name == get_filed(tl, K_config)
             fresh == name \notin DOMAIN s.component
             seen == IF fresh THEN 0 ELSE s.component[name].count
         IN  [s EXCEPT !.component_name = name,
                       !.total_components = IF fresh THEN @ + 1 ELSE @,
                       !.component =
                           (name :> [NewStat EXCEPT !.count = seen + 1]) @@ @]
    ELSE s

\* on_config with `entry.count += 1` moved into the or_insert_with closure
on_config_counts_first(s, tl) ==
    IF starts_with(tl, K_config_sp)
    THEN LET name == get_filed(tl, K_config)
             fresh == name \notin DOMAIN s.component
         IN  [s EXCEPT !.component_name = name,
                       !.total_components = IF fresh THEN @ + 1 ELSE @,
                       !.component = IF fresh
                                     THEN (name :> [NewStat EXCEPT !.count = 1]) @@ @
                                     ELSE @]
    ELSE s

\* kconfig_counter.rs:118-138
on_config(s, tl) ==
    IF starts_with(tl, K_config_sp)
    THEN LET name == get_filed(tl, K_config)
             fresh == name \notin DOMAIN s.component
             table == IF fresh THEN (name :> NewStat) @@ s.component
                      ELSE s.component
         IN  [s EXCEPT !.component_name = name,
                       !.total_components = IF fresh THEN @ + 1 ELSE @,
                       !.component = [table EXCEPT ![name].count = @ + 1]]
    ELSE s

\* kconfig_counter.rs:140-144
on_depends(s, tl) ==
    IF starts_with(tl, K_depends_on) /\ s.component_name \in DOMAIN s.component
    THEN [s EXCEPT !.component[s.component_name].depend =
                        Append(@, get_filed(tl, K_depends_on))]
    ELSE s

\* kconfig_counter.rs:146-150
on_bool(s, tl) ==
    IF starts_with(tl, K_bool) /\ s.component_name \in DOMAIN s.component
    THEN [s EXCEPT !.component[s.component_name].value_type = "Bool"]
    ELSE s

\* kconfig_counter.rs:152-156
on_default(s, tl) ==
    IF starts_with(tl, K_default) /\ s.component_name \in DOMAIN s.component
    THEN [s EXCEPT !.component[s.component_name].default_value =
                        Append(@, get_filed(tl, K_default))]
    ELSE s

\* on_def_bool without `stat.default_value.clear()`
on_def_bool_keeps(s, tl) ==
    IF starts_with(tl, K_def_bool) /\ s.component_name \in DOMAIN s.component
    THEN [s EXCEPT !.component[s.component_name].default_value =
                        Append(@, get_filed(tl, K_def_bool)),
                   !.component[s.component_name].value_type = "Bool"]
    ELSE s

\* kconfig_counter.rs:158-164
on_def_bool(s, tl) ==
    IF starts_with(tl, K_def_bool) /\ s.component_name \in DOMAIN s.component
    THEN [s EXCEPT !.component[s.component_name].default_value =
                        <<get_filed(tl, K_def_bool)>>,
                   !.component[s.component_name].value_type = "Bool"]
    ELSE s

\* on_select with `entry(..).or_insert_with` in the place of `get_mut`
on_select_creates(s, tl) ==
    IF starts_with(tl, K_select)
    THEN LET name == s.component_name
             table == IF name \in DOMAIN s.component THEN s.component
                      ELSE (name :> NewStat) @@ s.component
         IN  [s EXCEPT !.component =
                  [table EXCEPT ![name].select = Append(@, get_filed(tl, K_select))]]
    ELSE s

\* kconfig_counter.rs:166-170
on_select(s, tl) ==
    IF starts_with(tl, K_select) /\ s.component_name \in DOMAIN s.component
    THEN [s EXCEPT !.component[s.component_name].select =
                        Append(@, get_filed(tl, K_select))]
    ELSE s

\* kconfig_counter.rs:107-170: the loop body from the blank-line test on, which
\* also runs for a `source` line once its descent has returned
stanza(s, tl) ==
    IF tl = <<>> THEN [s EXCEPT !.update = TRUE]
    ELSE CHOOSE s7 \in {on_select(s6, tl) : s6 \in
                        {on_def_bool(s5, tl) : s5 \in
                        {on_default(s4, tl) : s4 \in
                        {on_bool(s3, tl) : s3 \in
                        {on_depends(s2, tl) : s2 \in
                        {on_config(s1, tl) : s1 \in
                        {on_update(s, tl)}}}}}}} : TRUE

\* --------------------------------------------------------------- resolution
RECURSIVE SumLines(_, _)
SumLines(files, S) ==
    CHOOSE n \in {IF T = {} THEN 0
                  ELSE LET f == CHOOSE x \in T : TRUE
                       IN  Len(files[f].lines) + SumLines(files, T \ {f}) :
                  T \in {S}} : TRUE

\* What the file system answers when a path is looked at: what it answered
\* before, or any answer when the path is looked at for the first time.
Kinds(f) ==
    IF fs[f].kind = "unknown" THEN {"absent", "denied", "file"} ELSE {fs[f].kind}

Look(files, f, k) == [files EXCEPT ![f].kind = k]

\* Frame with the component the including file is at
Frame_inherits(path) ==
    [path |-> path, pos |-> 0,
     component_name |-> IF stack = <<>> THEN <<>> ELSE stack[Len(stack)].component_name,
     update |-> FALSE]

\* kconfig_counter.rs:59-64: a call of parse_kconfig_path that opened its file
Frame(path) ==
    [path |-> path, pos |-> 0, component_name |-> <<>>, update |-> FALSE]

Top == stack[Len(stack)]

\* kconfig_counter.rs:66: reader.lines() yields l as the next line of the
\* innermost file: the line the file is known to hold there, or a new one
Yields(l) ==
    LET f == Top.path
        i == Top.pos + 1
    IN  \/ i <= Len(fs[f].lines) /\ l = fs[f].lines[i]
        \/ /\ i = Len(fs[f].lines) + 1
           /\ fs[f].end = "open"
           /\ l \in input.kvocab
           /\ SumLines(fs, KFiles) < input.klimit

Ends(how) ==
    LET f == Top.path
    IN  /\ Top.pos = Len(fs[f].lines)
        /\ \/ fs[f].end = how
           \/ fs[f].end = "open" /\ (how = "error" => input.ioerr)

Read(files, l) ==
    LET f == Top.path
    IN  IF Top.pos + 1 <= Len(files[f].lines) THEN files
        ELSE [files EXCEPT ![f].lines = Append(@, l)]

\* main.rs:132-133, 158-160: what main does once parse_kconfig has returned,
\* whatever it returned, in the block p
AfterParse(p) == IF p = "kconfig_code" THEN "analyze" ELSE "print"

\* The rest of the loop body for the line the frame `fr` is at, then the next
\* iteration: the new frame and the new table.
Advance(fr, comp, total, l) ==
    CHOOSE a \in {[frame |-> [fr EXCEPT !.pos = @ + 1,
                                        !.component_name = s.component_name,
                                        !.update = s.update],
                   component |-> s.component,
                   total_components |-> s.total_components] :
                  s \in {stanza(Scan(comp, total, fr.component_name, fr.update), tl) :
                         tl \in {trim(l)}}} : TRUE

\* Return with the result passed on by every caller
Return_all(files) ==
    /\ stack' = <<>>
    /\ pc' = AfterParse(pass)
    /\ UNCHANGED <<component, total_components>>

\* The innermost call returns (kconfig_counter.rs:67 with an error, :173
\* without): its caller, if any, finishes the iteration of its `source` line
\* (kconfig_counter.rs:98 drops the result).
Return(files) ==
    IF Len(stack) = 1
    THEN /\ stack' = <<>>
         /\ pc' = AfterParse(pass)
         /\ UNCHANGED <<component, total_components>>
    ELSE LET caller == stack[Len(stack) - 1]
             a == Advance(caller, component, total_components,
                          files[caller.path].lines[caller.pos + 1])
         IN  /\ stack' = Append(SubSeq(stack, 1, Len(stack) - 2), a.frame)
             /\ component' = a.component
             /\ total_components' = a.total_components
             /\ pc' = pc

\* main.rs:91-95: the version is read from <kernel_path>/Makefile; main
\* returns the error of fetch_kernel_version
FetchVersion ==
    /\ pc = "start"
    /\ LET f == Makefile(args.kernel_path)
       IN  \E k \in Kinds(f) :
              LET v == IF k = "file" /\ fs[f].end # "error"
                       THEN fetch_kernel_version(fs[f].lines) ELSE None
              IN  /\ fs' = [fs EXCEPT ![f].kind = k,
                                      ![f].end = IF k = "file" /\ @ = "open"
                                                 THEN "eof" ELSE @]
                  /\ IF v = None
                     THEN version' = version /\ pc' = "error"
                     ELSE version' = v /\ pc' = "code"
    /\ UNCHANGED <<args, input, pass, fvars, kvars, stack, opened, encountered, cvars>>

\* runs_parse_only without the test of --kconfig-code
runs_parse_only_any(a) == a.kconfig

\* main.rs:115: the block that parses and reports
runs_parse_only(a) == a.kconfig /\ ~a.kconfig_code

\* main.rs:115-116: the first Kconfig block is not entered
MainNoKconfig ==
    /\ pc = "kconfig"
    /\ ~runs_parse_only(args)
    /\ pc' = "kconfig_code"
    /\ UNCHANGED <<cvars, mvars, fvars, args, input, fs, kvars, stack, opened, encountered>>

\* main.rs:137-141, 164: the second Kconfig block is not entered, or is left
\* by exit(1) when --kconfig is not set
MainKconfigCode ==
    /\ pc = "kconfig_code"
    /\ ~(args.kconfig_code /\ args.kconfig)
    /\ pc' = IF args.kconfig_code THEN "exit" ELSE "done"
    /\ UNCHANGED <<cvars, mvars, fvars, args, input, fs, kvars, stack, opened, encountered>>

\* main.rs:124-132, 150-158 and kconfig_counter.rs:38-60: KconfigCounter::new,
\* set_check_all, parse_kconfig, and the File::open of the entry file
ParseKconfig ==
    /\ \/ pc = "kconfig" /\ runs_parse_only(args)
       \/ pc = "kconfig_code" /\ args.kconfig_code /\ args.kconfig
    /\ pass' = pc
    /\ check_all' = args.full
    /\ component' = <<>>
    /\ code_dir' = {}
    /\ total_components' = 0
    /\ total_code_lines' = 0
    /\ opened' = opened \cup {kconfig_path}
    /\ \E k \in Kinds(kconfig_path) :
          /\ fs' = Look(fs, kconfig_path, k)
          /\ IF k = "file"
             THEN stack' = <<Frame(kconfig_path)>> /\ pc' = "parse"
             ELSE stack' = <<>> /\ pc' = AfterParse(pc)
    /\ UNCHANGED <<cvars, fvars, args, input, version, encountered>>

\* kconfig_counter.rs:69-71: a comment line
LineComment ==
    /\ pc = "parse"
    /\ \E l \in KLines :
          /\ Yields(l)
          /\ starts_with(trim(l), <<"#">>)
          /\ fs' = Read(fs, l)
          /\ encountered' = Append(encountered, [path |-> Top.path, line |-> l])
          /\ stack' = [stack EXCEPT ![Len(stack)].pos = @ + 1]
    /\ UNCHANGED <<cvars, mvars, fvars, args, input, pc, kvars, opened>>

\* kconfig_counter.rs:107-170: a line that is neither a comment nor a `source`
LineStanza ==
    /\ pc = "parse"
    /\ \E l \in KLines :
          /\ Yields(l)
          /\ ~starts_with(trim(l), <<"#">>)
          /\ ~starts_with(trim(l), K_source)
          /\ fs' = Read(fs, l)
          /\ encountered' = Append(encountered, [path |-> Top.path, line |-> l])
          /\ \E a \in {Advance(Top, component, total_components, l)} :
                 /\ stack' = [stack EXCEPT ![Len(stack)] = a.frame]
                 /\ component' = a.component
                 /\ total_components' = a.total_components
    /\ UNCHANGED <<cvars, mvars, fvars, args, input, pc, check_all, code_dir, total_code_lines, opened>>

\* LineSourcePanic with the failure passed over: the line is skipped
LineSourcePanic_skips ==
    /\ pc = "parse"
    /\ \E l \in KLines :
          /\ Yields(l)
          /\ ~starts_with(trim(l), <<"#">>)
          /\ starts_with(trim(l), K_source)
          /\ \E target \in {source_target(ascent_start(kconfig_path, Top.path), version, trim(l))} :
                 /\ "absent" \in Kinds(target)
                 /\ fs' = Look(Read(fs, l), target, "absent")
          /\ encountered' = Append(encountered, [path |-> Top.path, line |-> l])
          /\ stack' = [stack EXCEPT ![Len(stack)].pos = @ + 1]
    /\ UNCHANGED <<cvars, mvars, fvars, args, input, pc, kvars, opened>>

\* kconfig_counter.rs:73-88: a `source` line whose target does not
\* canonicalize: the unwrap panics
LineSourcePanic ==
    /\ pc = "parse"
    /\ \E l \in KLines :
          /\ Yields(l)
          /\ ~starts_with(trim(l), <<"#">>)
          /\ starts_with(trim(l), K_source)
          /\ \E target \in {source_target(ascent_start(kconfig_path, Top.path), version, trim(l))} :
                 /\ "absent" \in Kinds(target)
                 /\ fs' = Look(Read(fs, l), target, "absent")
          /\ encountered' = Append(encountered, [path |-> Top.path, line |-> l])
          /\ pc' = "panic"
    /\ UNCHANGED <<cvars, mvars, fvars, args, input, kvars, stack, opened>>

\* kconfig_counter.rs:73-105: a `source` line whose target does not pass the
\* filter (the branch at :99 cannot be taken: check_all is false there)
LineSourceSkip ==
    /\ pc = "parse"
    /\ \E l \in KLines :
          /\ Yields(l)
          /\ ~starts_with(trim(l), <<"#">>)
          /\ starts_with(trim(l), K_source)
          /\ \E target \in {source_target(ascent_start(kconfig_path, Top.path), version, trim(l))} :
                 /\ ~passes_filter(check_all, target)
                 /\ \E k \in Kinds(target) \ {"absent"} :
                        fs' = Look(Read(fs, l), target, k)
          /\ encountered' = Append(encountered, [path |-> Top.path, line |-> l])
          /\ \E a \in {Advance(Top, component, total_components, l)} :
                 /\ stack' = [stack EXCEPT ![Len(stack)] = a.frame]
                 /\ component' = a.component
                 /\ total_components' = a.total_components
    /\ UNCHANGED <<cvars, mvars, fvars, args, input, pc, check_all, code_dir, total_code_lines, opened>>

\* kconfig_counter.rs:60: what File::open answers for a file that is there,
\* in a call nested `depth` deep: the file, or, when the process holds all
\* the calls it can, an error or the end of the process
open_file(depth) == IF depth < MaxDepth THEN {"file"} ELSE {"error", "overflow"}

\* kconfig_counter.rs:90-98 and :60: a `source` line whose target passes the
\* filter: its parent directory is recorded and the file is descended into.
\* When File::open fails the call returns at once and the result is dropped.
LineSourceDescend ==
    /\ pc = "parse"
    /\ \E l \in KLines :
          /\ Yields(l)
          /\ ~starts_with(trim(l), <<"#">>)
          /\ starts_with(trim(l), K_source)
          /\ encountered' = Append(encountered, [path |-> Top.path, line |-> l])
          /\ \E target \in {source_target(ascent_start(kconfig_path, Top.path), version, trim(l))} :
                 /\ passes_filter(check_all, target)
                 /\ code_dir' = with_dir(code_dir, target)
                 /\ opened' = opened \cup {target}
                 /\ \E k \in Kinds(target) \ {"absent"} :
                       /\ fs' = Look(Read(fs, l), target, k)
                       /\ \E o \in IF k = "file" THEN open_file(Len(stack))
                                    ELSE {"error"} :
                             IF o = "file"
                             THEN /\ stack' = Append(stack, Frame(target))
                                  /\ pc' = pc
                                  /\ UNCHANGED <<component, total_components>>
                             ELSE IF o = "overflow"
                             THEN /\ pc' = "overflow"
                                  /\ UNCHANGED <<stack, component, total_components>>
                             ELSE \E a \in {Advance(Top, component, total_components, l)} :
                                      /\ stack' = [stack EXCEPT ![Len(stack)] = a.frame]
                                      /\ component' = a.component
                                      /\ total_components' = a.total_components
                                      /\ pc' = pc
    /\ UNCHANGED <<cvars, mvars, fvars, args, input, check_all, total_code_lines>>

\* kconfig_counter.rs:66, 173: the file has no more lines
EndOfFile ==
    /\ pc = "parse"
    /\ Ends("eof")
    /\ fs' = [fs EXCEPT ![Top.path].end = "eof"]
    /\ Return(fs)
    /\ UNCHANGED <<cvars, mvars, fvars, args, input, check_all, code_dir, total_code_lines, opened,
                   encountered>>

\* ReadError with the error passed on by every caller
ReadError_propagates ==
    /\ pc = "parse"
    /\ Ends("error")
    /\ fs' = [fs EXCEPT ![Top.path].end = "error"]
    /\ stack' = <<>>
    /\ pc' = AfterParse(pass)
    /\ UNCHANGED <<cvars, mvars, fvars, args, input, kvars, opened, encountered>>

\* kconfig_counter.rs:67: reading the next line fails
ReadError ==
    /\ pc = "parse"
    /\ Ends("error")
    /\ fs' = [fs EXCEPT ![Top.path].end = "error"]
    /\ Return(fs)
    /\ UNCHANGED <<cvars, mvars, fvars, args, input, check_all, code_dir, total_code_lines, opened,
                   encountered>>

\* ---------------------------------------------------------- code correlation
M_ifdef == <<"#", "ifdef", " ", "CONFIG_">>
M_endif == <<"#", "endif">>

\* Path::extension: what follows the last "." of the file name
extension(p) ==
    LET name == SubSeq(p, last_sep(p) + 1, Len(p))
        dots == {i \in 2..Len(name) : name[i] = "."}
    IN  IF dots = {} THEN <<>>
        ELSE SubSeq(name, (CHOOSE i \in dots : \A j \in dots : j <= i) + 1, Len(name))

\* kconfig_counter.rs:190-191
is_c_or_h(p) == extension(p) \in {<<"c">>, <<"h">>}

\* kconfig_counter.rs:203-207: the locals of a call of parse_code
Locals(path) ==
    [path |-> path, pos |-> 0, in_config_block |-> FALSE, component_name |-> <<>>,
     snippet |-> <<>>, snippet_line_count |-> 0, ifdef_stack |-> <<>>]

\* What one line of a C file changes: the locals, the table and the total
Code(c, table, total) == [c |-> c, component |-> table, total_code_lines |-> total]

\* kconfig_counter.rs:211-221
on_ifdef(c, table, total, line) ==
    LET name == get_filed(trim(line), M_ifdef)
        known == name \in DOMAIN table
    IN  Code([c EXCEPT !.component_name = name,
                       !.in_config_block = IF known THEN TRUE ELSE @,
                       !.snippet = IF known THEN Append(@, line) ELSE @,
                       !.snippet_line_count = IF known THEN @ + 1 ELSE @,
                       !.ifdef_stack = Append(@, name)],
             table, total)

\* on_endif without `snippet.clear()` and `snippet_line_count = 0`
on_endif_keeps(c, table, total, line) ==
    IF c.ifdef_stack = <<>> THEN Code(c, table, total)
    ELSE LET last_component == c.ifdef_stack[Len(c.ifdef_stack)]
             rest == SubSeq(c.ifdef_stack, 1, Len(c.ifdef_stack) - 1)
         IN  IF rest = <<>>
             THEN Code([c EXCEPT !.ifdef_stack = rest,
                                 !.in_config_block = FALSE],
                       IF last_component \in DOMAIN table
                       THEN [table EXCEPT ![last_component].code_snippets =
                                               Append(@, c.snippet)]
                       ELSE table,
                       total + c.snippet_line_count)
             ELSE Code([c EXCEPT !.ifdef_stack = rest,
                                 !.snippet = Append(@, line),
                                 !.snippet_line_count = @ + 1],
                       table, total)

\* on_endif without the test of the stack: the line is buffered
on_endif_unguarded(c, table, total, line) ==
    IF Len(c.ifdef_stack) <= 1
    THEN Code([c EXCEPT !.ifdef_stack = <<>>,
                        !.snippet = Append(@, line),
                        !.snippet_line_count = @ + 1],
              table, total)
    ELSE Code([c EXCEPT !.ifdef_stack = SubSeq(@, 1, Len(@) - 1),
                        !.snippet = Append(@, line),
                        !.snippet_line_count = @ + 1],
              table, total)

\* kconfig_counter.rs:222-240
on_endif(c, table, total, line) ==
    IF c.ifdef_stack = <<>> THEN Code(c, table, total)
    ELSE LET last_component == c.ifdef_stack[Len(c.ifdef_stack)]
             rest == SubSeq(c.ifdef_stack, 1, Len(c.ifdef_stack) - 1)
         IN  IF rest = <<>>
             THEN Code([c EXCEPT !.ifdef_stack = rest,
                                 !.in_config_block = FALSE,
                                 !.snippet = <<>>,
                                 !.snippet_line_count = 0],
                       IF last_component \in DOMAIN table
                       THEN [table EXCEPT ![last_component].code_snippets =
                                               Append(@, c.snippet)]
                       ELSE table,
                       total + c.snippet_line_count)
             ELSE Code([c EXCEPT !.ifdef_stack = rest,
                                 !.snippet = Append(@, line),
                                 !.snippet_line_count = @ + 1],
                       table, total)

\* kconfig_counter.rs:241-246
on_other(c, table, total, line) ==
    IF c.in_config_block
    THEN Code([c EXCEPT !.snippet = Append(@, line),
                        !.snippet_line_count = @ + 1],
              table, total)
    ELSE Code(c, table, total)

\* kconfig_counter.rs:209-247: the loop body of parse_code
code_line(c, table, total, line) ==
    IF contains(line, M_ifdef) THEN on_ifdef(c, table, total, line)
    ELSE IF contains(line, M_endif) THEN on_endif(c, table, total, line)
    ELSE on_other(c, table, total, line)

\* main.rs:159 and kconfig_counter.rs:176-178: analyze_code copies code_dir
AnalyzeCode ==
    /\ pc = "analyze"
    /\ todo' = code_dir
    /\ pc' = "walk"
    /\ UNCHANGED <<mvars, fvars, args, input, fs, kvars, stack, opened, encountered, walk, scan>>

\* What read_dir answers for a directory
DirKinds(d) ==
    IF fs[d].kind = "unknown" THEN {"dir", "denied"} ELSE {fs[d].kind}

\* kconfig_counter.rs:178-179, 184: the next directory of the set, in the
\* set's order, and its read_dir; an error is unwrapped
WalkStart ==
    /\ pc = "walk"
    /\ walk = <<>>
    /\ \E d \in todo :
          /\ todo' = todo \ {d}
          /\ \E k \in DirKinds(d) :
                /\ fs' = Look(fs, d, k)
                /\ IF k = "dir"
                   THEN walk' = <<[dir |-> d, left |-> Entries(d)]>> /\ pc' = pc
                   ELSE walk' = walk /\ pc' = "panic"
    /\ UNCHANGED <<mvars, fvars, args, input, kvars, stack, opened, encountered, scan>>

\* kconfig_counter.rs:184-188: an entry that is a directory
WalkDir ==
    /\ pc = "walk"
    /\ walk # <<>>
    /\ scan = <<>>
    /\ \E e \in walk[Len(walk)].left \cap Dirs :
          \E k \in DirKinds(e) :
             /\ fs' = Look(fs, e, k)
             /\ IF k = "dir"
                THEN /\ walk' = Append([walk EXCEPT ![Len(walk)].left = @ \ {e}],
                                       [dir |-> e, left |-> Entries(e)])
                     /\ pc' = pc
                ELSE walk' = walk /\ pc' = "panic"
    /\ UNCHANGED <<mvars, fvars, args, input, kvars, stack, opened, encountered, todo, scan>>

\* kconfig_counter.rs:189-193: an entry that is a file of another kind
WalkSkip ==
    /\ pc = "walk"
    /\ walk # <<>>
    /\ scan = <<>>
    /\ \E e \in walk[Len(walk)].left \ Dirs :
          /\ ~is_c_or_h(e)
          /\ walk' = [walk EXCEPT ![Len(walk)].left = @ \ {e}]
    /\ UNCHANGED <<mvars, fvars, args, input, fs, pc, kvars, stack, opened, encountered, todo, scan>>

\* kconfig_counter.rs:191, 199-207: a .c or .h entry: parse_code opens it
WalkFile ==
    /\ pc = "walk"
    /\ walk # <<>>
    /\ scan = <<>>
    /\ \E e \in walk[Len(walk)].left \ Dirs :
          /\ is_c_or_h(e)
          /\ opened' = opened \cup {e}
          /\ \E k \in Kinds(e) :
                /\ fs' = Look(fs, e, k)
                /\ IF k = "file"
                   THEN /\ scan' = <<Locals(e)>>
                        /\ walk' = [walk EXCEPT ![Len(walk)].left = @ \ {e}]
                        /\ pc' = pc
                   ELSE scan' = scan /\ walk' = walk /\ pc' = "panic"
    /\ UNCHANGED <<mvars, fvars, args, input, kvars, stack, encountered, todo>>

\* kconfig_counter.rs:195-196: the directory has no more entries
WalkReturn ==
    /\ pc = "walk"
    /\ walk # <<>>
    /\ scan = <<>>
    /\ walk[Len(walk)].left = {}
    /\ walk' = SubSeq(walk, 1, Len(walk) - 1)
    /\ UNCHANGED <<mvars, fvars, args, input, fs, pc, kvars, stack, opened, encountered, todo, scan>>

\* kconfig_counter.rs:180: every directory of the set is walked
WalkDone ==
    /\ pc = "walk"
    /\ walk = <<>>
    /\ todo = {}
    /\ pc' = "print"
    /\ UNCHANGED <<mvars, fvars, args, input, fs, kvars, stack, opened, encountered, cvars>>

\* kconfig_counter.rs:209: reader.lines() yields l as the next line of the
\* C file
CYields(l) ==
    LET f == scan[1].path
        i == scan[1].pos + 1
    IN  \/ i <= Len(fs[f].lines) /\ l = fs[f].lines[i]
        \/ /\ i = Len(fs[f].lines) + 1
           /\ fs[f].end = "open"
           /\ l \in input.cvocab
           /\ SumLines(fs, CFiles) < input.climit

\* kconfig_counter.rs:209-247: one line of the C file
CodeLine ==
    /\ pc = "walk"
    /\ scan # <<>>
    /\ \E l \in VocabC :
          /\ CYields(l)
          /\ fs' = IF scan[1].pos + 1 <= Len(fs[scan[1].path].lines) THEN fs
                   ELSE [fs EXCEPT ![scan[1].path].lines = Append(@, l)]
          /\ LET r == code_line(scan[1], component, total_code_lines, l)
             IN  /\ scan' = <<[r.c EXCEPT !.pos = @ + 1]>>
                 /\ component' = r.component
                 /\ total_code_lines' = r.total_code_lines
    /\ UNCHANGED <<mvars, fvars, args, input, pc, check_all, code_dir, total_components, stack,
                   opened, encountered, todo, walk>>

\* CodeEnd with the open buffer written to the component of the outermost
\* guard
CodeEnd_flushes ==
    /\ pc = "walk"
    /\ scan # <<>>
    /\ scan[1].pos = Len(fs[scan[1].path].lines)
    /\ fs[scan[1].path].end \in {"open", "eof"}
    /\ fs' = [fs EXCEPT ![scan[1].path].end = "eof"]
    /\ scan' = <<>>
    /\ total_code_lines' = total_code_lines + scan[1].snippet_line_count
    /\ component' =
          IF scan[1].ifdef_stack # <<>> /\ scan[1].ifdef_stack[1] \in DOMAIN component
          THEN [component EXCEPT ![scan[1].ifdef_stack[1]].code_snippets =
                                      Append(@, scan[1].snippet)]
          ELSE component
    /\ UNCHANGED <<mvars, fvars, args, input, pc, check_all, code_dir, total_components,
                   stack, opened, encountered, todo, walk>>

\* kconfig_counter.rs:209, 249: the C file has no more lines; the locals go
CodeEnd ==
    /\ pc = "walk"
    /\ scan # <<>>
    /\ scan[1].pos = Len(fs[scan[1].path].lines)
    /\ fs[scan[1].path].end \in {"open", "eof"}
    /\ fs' = [fs EXCEPT ![scan[1].path].end = "eof"]
    /\ scan' = <<>>
    /\ UNCHANGED <<mvars, fvars, args, input, pc, kvars, stack, opened, encountered, todo, walk>>

\* kconfig_counter.rs:210, 191, 188, 179: reading the C file fails; the error
\* goes up to analyze_code, which unwraps it
CodeReadError ==
    /\ pc = "walk"
    /\ scan # <<>>
    /\ scan[1].pos = Len(fs[scan[1].path].lines)
    /\ \/ fs[scan[1].path].end = "error"
       \/ fs[scan[1].path].end = "open" /\ input.ioerr
    /\ fs' = [fs EXCEPT ![scan[1].path].end = "error"]
    /\ pc' = "panic"
    /\ UNCHANGED <<mvars, fvars, args, input, kvars, stack, opened, encountered, cvars>>

\* main.rs:133, 160 and kconfig_counter.rs:252-299: the report reads the table
Report ==
    /\ pc = "print"
    /\ pc' = IF pass = "kconfig" THEN "kconfig_code" ELSE "done"
    /\ UNCHANGED <<mvars, fvars, args, input, fs, kvars, stack, opened, encountered, cvars>>

\* ------------------------------------------------------------- file counter
\* Path::file_name: the last component
file_name(p) == SubSeq(p, last_sep(p) + 1, Len(p))

\* file_counter.rs:20-28
from_extension(ext) ==
    IF ext \in {<<"c">>, <<"cpp">>, <<"cc">>} THEN "TypeC"
    ELSE IF ext \in {<<"h">>, <<"hpp">>} THEN "TypeH"
    ELSE IF ext = <<"rs">> THEN "TypeRust"
    ELSE IF ext \in {<<"S">>, <<"s">>, <<"asm">>} THEN "TypeAsm"
    ELSE IF ext = <<"py">> THEN "TypePython"
    ELSE "TypeOther"

\* file_counter.rs:80-88
file_type(p) ==
    IF file_name(p) = <<"Makefile">> THEN "TypeM"
    ELSE IF file_name(p) = <<"Kconfig">> THEN "TypeK"
    ELSE IF extension(p) # <<>> THEN from_extension(extension(p))
    ELSE "TypeOther"

\* file_counter.rs:40-46: FileStat::default
NoStat == [files |-> 0, blank |-> 0, comment |-> 0, code |-> 0]

\* file_counter.rs:102-114: the class of a line
line_class(line) ==
    LET trimmed == trim(line)
    IN  IF trimmed = <<>> THEN "blank"
        ELSE IF Head(trimmed) \in {"//", "/*", "*", "#", ";"} THEN "comment"
        ELSE "code"

\* file_counter.rs:96-115: how many lines of the file are of the class
count_class(lines, class) ==
    Cardinality({i \in DOMAIN lines : line_class(lines[i]) = class})

\* file_counter.rs:90: entry(file_type).or_default()
stat_of(table, type) == IF type \in DOMAIN table THEN table[type] ELSE NoStat

\* file_counter.rs:90-91: the file is counted before it is opened
count_file(table, type) ==
    [t \in DOMAIN table \cup {type} |->
        IF t = type THEN [stat_of(table, type) EXCEPT !.files = @ + 1]
        ELSE table[t]]

\* file_counter.rs:119-121: the lines of a file that was read to its end
count_lines(table, type, lines) ==
    [table EXCEPT ![type] = [@ EXCEPT !.blank = @ + count_class(lines, "blank"),
                                      !.comment = @ + count_class(lines, "comment"),
                                      !.code = @ + count_class(lines, "code")]]

\* main.rs:99-102: <kernel_path>/arch/<arch>
arch_dir == push(push(args.kernel_path, <<"arch">>), Arch)

\* The innermost search_dir call returns; main.rs:109-110 when it was the
\* outermost: search drops the result and the counts are printed
SearchPop ==
    /\ search' = SubSeq(search, 1, Len(search) - 1)
    /\ pc' = IF Len(search) = 1 THEN "kconfig" ELSE pc

\* main.rs:97-110 and file_counter.rs:56-71: without --code the block is
\* skipped; with it FileCounter::new, search, and the read_dir of arch_dir
MainCode ==
    /\ pc = "code"
    /\ IF ~args.code
       THEN pc' = "kconfig" /\ UNCHANGED <<fs, fvars>>
       ELSE /\ file_count' = <<>>
            /\ \E k \in DirKinds(arch_dir) :
                  /\ fs' = Look(fs, arch_dir, k)
                  /\ IF k = "dir"
                     THEN /\ search' = <<[dir |-> arch_dir, left |-> Entries(arch_dir)]>>
                          /\ pc' = "count"
                     ELSE search' = <<>> /\ pc' = "kconfig"
    /\ UNCHANGED <<args, input, mvars, kvars, stack, opened, encountered, cvars>>

\* file_counter.rs:72-73, 124-126: the iterator yields an error for an entry
SearchEntryError ==
    /\ pc = "count"
    /\ input.ioerr
    /\ \E e \in search[Len(search)].left :
          search' = [search EXCEPT ![Len(search)].left = @ \ {e}]
    /\ UNCHANGED <<args, input, fs, pc, mvars, file_count, kvars, stack, opened,
                   encountered, cvars>>

\* file_counter.rs:76-77, 71: an entry that is a directory; when read_dir
\* fails the nested call returns at once
SearchDir ==
    /\ pc = "count"
    /\ \E e \in search[Len(search)].left \cap Dirs :
          \E k \in DirKinds(e) :
             /\ fs' = Look(fs, e, k)
             /\ LET rest == [search EXCEPT ![Len(search)].left = @ \ {e}]
                IN  search' = IF k = "dir"
                              THEN Append(rest, [dir |-> e, left |-> Entries(e)])
                              ELSE rest
    /\ UNCHANGED <<args, input, pc, mvars, file_count, kvars, stack, opened,
                   encountered, cvars>>

\* SearchFile with the error of File::open or of a read passed over: the loop
\* goes on with the next entry
SearchFile_continues ==
    /\ pc = "count"
    /\ \E e \in search[Len(search)].left \ Dirs :
          \E k \in Kinds(e) :
             \E end \in IF fs[e].end # "open" THEN {fs[e].end}
                        ELSE IF input.ioerr THEN {"eof", "error"} ELSE {"eof"} :
                LET counted == count_file(file_count, file_type(e))
                IN  /\ fs' = [fs EXCEPT ![e].kind = k,
                                        ![e].end = IF k = "file" THEN end ELSE @]
                    /\ file_count' = IF k = "file" /\ end = "eof"
                                     THEN count_lines(counted, file_type(e), fs[e].lines)
                                     ELSE counted
                    /\ search' = [search EXCEPT ![Len(search)].left = @ \ {e}]
                    /\ pc' = pc
    /\ UNCHANGED <<args, input, mvars, kvars, stack, opened, encountered, cvars>>

\* file_counter.rs:78-121: an entry that is a file: it is counted, opened and
\* read line by line; an error of File::open or of a read is returned
SearchFile ==
    /\ pc = "count"
    /\ \E e \in search[Len(search)].left \ Dirs :
          \E k \in Kinds(e) :
             \E end \in IF fs[e].end # "open" THEN {fs[e].end}
                        ELSE IF input.ioerr THEN {"eof", "error"} ELSE {"eof"} :
                LET counted == count_file(file_count, file_type(e))
                IN  /\ fs' = [fs EXCEPT ![e].kind = k,
                                        ![e].end = IF k = "file" THEN end ELSE @]
                    /\ IF k = "file" /\ end = "eof"
                       THEN /\ file_count' =
                                  count_lines(counted, file_type(e), fs[e].lines)
                            /\ search' = [search EXCEPT ![Len(search)].left = @ \ {e}]
                            /\ pc' = pc
                       ELSE /\ file_count' = counted
                            /\ SearchPop
    /\ UNCHANGED <<args, input, mvars, kvars, stack, opened, encountered, cvars>>

\* file_counter.rs:72, 130: the directory has no more entries
SearchReturn ==
    /\ pc = "count"
    /\ search[Len(search)].left = {}
    /\ SearchPop
    /\ UNCHANGED <<args, input, fs, mvars, file_count, kvars, stack, opened,
                   encountered, cvars>>

\* -------------------------------------------------------------------- runs
AllFiles ==
    KFiles \cup CFiles \cup Dirs \cup {Makefile(KernelPath), Makefile(KernelInner)}

\* A tree of which the run has seen nothing but the Makefile
NothingSeen ==
    [f \in AllFiles |-> IF f = Makefile(KernelPath) THEN File(MakeGood) ELSE Unknown]

\* Trees whose Kconfig files are drawn, line by line, from a vocabulary
Drawn(kvocab, ioerr) ==
    [kvocab |-> kvocab, klimit |-> MaxKLines, cvocab |-> {}, climit |-> 0,
     ioerr |-> ioerr]

\* Trees with given Kconfig files, whose C files are drawn from VocabC
Given == [kvocab |-> {}, klimit |-> 0, cvocab |-> VocabC, climit |-> MaxCLines,
          ioerr |-> TRUE]

\* Trees with given Kconfig files and empty C files
Bare == [kvocab |-> {}, klimit |-> 0, cvocab |-> {}, climit |-> 0, ioerr |-> FALSE]

\* The same, with entries and files that may fail to be read
Faulty == [Bare EXCEPT !.ioerr = TRUE]

\* config FOO, then the Kconfig of arch/riscv/kernel
TreeKernel ==
    [NothingSeen EXCEPT
        ![RootKconfig] = File(<<L_cfgFOO, Src(T_kernel)>>),
        ![push(KernelPath, T_kernel)] = File(<<>>)]

\* config FOO, then the Kconfig beside the entry file; a guard left open at
\* the end of head.h, and entry.c
TreeSocs ==
    [NothingSeen EXCEPT
        ![RootKconfig] = File(<<L_cfgFOO, Src(T_socs)>>),
        ![push(KernelPath, T_socs)] = File(<<>>),
        ![push(KernelPath, T_kernel)] = File(<<>>),
        ![F_head] = File(<<C_ifdefFOO, C_x>>),
        ![F_entry] = File(<<C_y, C_endif>>)]

\* Two files with a stanza of BAR each, the second sourced by the first
TreeBar ==
    [NothingSeen EXCEPT
        ![RootKconfig] = File(<<L_cfgBAR, L_depBAZ, Src(T_socs)>>),
        ![push(KernelPath, T_socs)] = File(<<L_cfgBAR, L_selQUX>>)]

\* A sourced file in a directory that is itself named linux-<version>
TreeNested ==
    [NothingSeen EXCEPT
        ![RootKconfig] = File(<<Src(T_nested)>>),
        ![push(KernelPath, T_nested)] = File(<<Src(T_kernel)>>),
        ![push(KernelPath, T_kernel)] = File(<<L_cfgFOO>>)]

\* The inner of two kernel trees of the same version
TreeInner ==
    [NothingSeen EXCEPT
        ![Makefile(KernelInner)] = File(MakeGood),
        ![InnerKconfig] = File(<<Src(T_kernel), L_cfgBAR>>),
        ![push(KernelInner, T_kernel)] = File(<<L_cfgFOO>>)]

\* The entry file names itself
TreeCycle ==
    [NothingSeen EXCEPT ![RootKconfig] = File(<<L_cfgFOO, Src(T_self), L_cfgBAR>>)]

\* The entry file sources the Kconfig beside it and the one of
\* arch/riscv/kernel: both directories are candidates
TreeBoth ==
    [NothingSeen EXCEPT
        ![RootKconfig] = File(<<L_cfgFOO, Src(T_socs), Src(T_kernel)>>),
        ![push(KernelPath, T_socs)] = File(<<>>),
        ![push(KernelPath, T_kernel)] = File(<<>>),
        ![F_head] = File(<<>>),
        ![F_entry] = File(<<C_ifdefFOO, C_x, C_endif>>)]

\* A `source` line after a blank line, between a header and an attribute; the
\* sourced file begins with an attribute
TreeFlag ==
    [NothingSeen EXCEPT
        ![RootKconfig] = File(<<L_cfgFOO, L_blank, Src(T_socs), L_bool>>),
        ![push(KernelPath, T_socs)] = File(<<L_selQUX, L_cfgBAR>>)]

\* The tree the file counter walks
TreeCount ==
    [NothingSeen EXCEPT
        ![RootKconfig] = File(<<L_cfgFOO, L_blank, L_comment>>),
        ![F_head] = File(<<C_ifdefFOO, C_x, C_endif>>),
        ![F_entry] = File(<<C_y>>)]

\* TreeKernel with another Makefile
WithMakefile(m) == [TreeKernel EXCEPT ![Makefile(KernelPath)] = m]

Stale == [File(MakeGood) EXCEPT !.end = "error"]

Flags(k, r, f) ==
    [kernel_path |-> KernelPath, code |-> FALSE,
     kconfig |-> k, kconfig_code |-> r, full |-> f]

\* The runs: the command line, what the files are drawn from, what is given
Runs ==
    {[args |-> Flags(TRUE, FALSE, f), input |-> Drawn(VocabResolve, TRUE),
      fs |-> NothingSeen] : f \in BOOLEAN}
    \cup {[args |-> Flags(TRUE, FALSE, FALSE), input |-> Drawn(v, FALSE),
           fs |-> NothingSeen] : v \in {VocabAttr, VocabBlank}}
    \cup {[args |-> Flags(TRUE, FALSE, FALSE), input |-> Bare, fs |-> t] :
             t \in {TreeBar, TreeNested, TreeCycle, TreeFlag}}
    \cup {[args |-> Flags(TRUE, TRUE, FALSE), input |-> Bare, fs |-> t] :
             t \in {TreeSocs, TreeBoth}}
    \cup {[args |-> Flags(TRUE, TRUE, FALSE), input |-> Given, fs |-> TreeKernel]}
    \cup {[args |-> Flags(FALSE, r, FALSE), input |-> Bare, fs |-> TreeKernel] :
             r \in BOOLEAN}
    \cup {[args |-> [Flags(TRUE, FALSE, FALSE) EXCEPT !.kernel_path = KernelInner],
           input |-> Bare, fs |-> TreeInner]}
    \cup {[args |-> Flags(TRUE, r, FALSE), input |-> Bare, fs |-> WithMakefile(m)] :
             r \in BOOLEAN,
             m \in {File(MakeOther), File(MakeShort), Stale, Unknown}}
    \cup {[args |-> [Flags(k, FALSE, FALSE) EXCEPT !.code = TRUE],
           input |-> Faulty, fs |-> TreeCount] : k \in BOOLEAN}

\* The runs resolution is followed to its end in: --kconfig alone, and the
\* run without it, in which nothing is resolved
RunsResolve ==
    {[args |-> Flags(TRUE, FALSE, f),
      input |-> [Drawn(VocabResolve, TRUE) EXCEPT !.klimit = MaxKLines - 2],
      fs |-> NothingSeen] : f \in BOOLEAN}
    \cup {[args |-> Flags(TRUE, FALSE, FALSE), input |-> Bare, fs |-> t] :
             t \in {TreeBar, TreeNested, TreeCycle, TreeCount}}
    \cup {[args |-> Flags(FALSE, FALSE, FALSE), input |-> Bare, fs |-> TreeKernel]}
    \cup {[args |-> [Flags(TRUE, FALSE, FALSE) EXCEPT !.kernel_path = KernelInner],
           input |-> Bare, fs |-> TreeInner]}

\* The state before main's first statement
Start(runs) ==
    /\ \E run \in runs :
          /\ args = run.args
          /\ input = run.input
          /\ fs = run.fs
    /\ pc = "start"
    /\ version = <<>>
    /\ pass = "none"
    /\ file_count = <<>>
    /\ search = <<>>
    /\ check_all = FALSE
    /\ component = <<>>
    /\ code_dir = {}
    /\ total_components = 0
    /\ total_code_lines = 0
    /\ stack = <<>>
    /\ opened = {}
    /\ encountered = <<>>
    /\ todo = {}
    /\ walk = <<>>
    /\ scan = <<>>

Init == Start(Runs)
InitResolve == Start(RunsResolve)

Next ==
    \/ FetchVersion
    \/ MainCode
    \/ SearchEntryError
    \/ SearchDir
    \/ SearchFile
    \/ SearchReturn
    \/ MainNoKconfig
    \/ MainKconfigCode
    \/ ParseKconfig
    \/ LineComment
    \/ LineStanza
    \/ LineSourcePanic
    \/ LineSourceSkip
    \/ LineSourceDescend
    \/ EndOfFile
    \/ ReadError
    \/ AnalyzeCode
    \/ WalkStart
    \/ WalkDir
    \/ WalkSkip
    \/ WalkFile
    \/ WalkReturn
    \/ WalkDone
    \/ CodeLine
    \/ CodeEnd
    \/ CodeReadError
    \/ Report

Spec == Init /\ [][Next]_vars

\* What main does with --kconfig alone
NextResolve ==
    \/ FetchVersion
    \/ MainCode
    \/ MainNoKconfig
    \/ MainKconfigCode
    \/ ParseKconfig
    \/ LineComment
    \/ LineStanza
    \/ LineSourcePanic
    \/ LineSourceSkip
    \/ LineSourceDescend
    \/ EndOfFile
    \/ ReadError
    \/ Report

\* main is one thread: a step that can be taken is taken
SpecResolve == InitResolve /\ [][NextResolve]_vars /\ WF_vars(NextResolve)

\* ------------------------------------------------------------------ claims
\* parse_kconfig has returned to main
ParseFinished ==
    pass # "none" /\ pc \in {"analyze", "walk", "print", "kconfig_code", "done"}

\* A `config <name>` header line, and the name it gives
IsHeader(l) ==
    LET t == trim(l) IN Len(t) >= 2 /\ t[1] = "config" /\ t[2] = " "
HeaderName(l) == trim(SubSeq(trim(l), 2, Len(trim(l))))

\* How many of the lines read so far, in whichever file, are headers of n
HeaderLines(n) ==
    Cardinality({i \in DOMAIN encountered :
                    IsHeader(encountered[i].line) /\ HeaderName(encountered[i].line) = n})

HeaderNames ==
    {HeaderName(encountered[i].line) :
        i \in {j \in DOMAIN encountered : IsHeader(encountered[j].line)}}

\* C1: once parse_kconfig has returned, the table holds exactly the names that
\* some `config <name>` line read in any reached file gave, and the count of
\* each is the number of those lines, every occurrence counted.
C1_CountIsHeaderLines ==
    ParseFinished =>
        /\ DOMAIN component = HeaderNames
        /\ \A n \in DOMAIN component : component[n].count = HeaderLines(n)

\* C1 witness: a name whose headers were read in two files, counted twice
C1_Witness ==
    /\ ParseFinished
    /\ BAR \in DOMAIN component
    /\ component[BAR].count = 2
    /\ \E i, j \in DOMAIN encountered :
          /\ encountered[i].path # encountered[j].path
          /\ encountered[i].line = L_cfgBAR
          /\ encountered[j].line = L_cfgBAR

\* This step reads one more line of a Kconfig file
ReadsLine == pc = "parse" /\ stack # <<>> /\ Len(encountered') = Len(encountered) + 1
TheLine == encountered'[Len(encountered')].line

\* The line's first letter, once trimmed, and what follows its first k letters
FirstLetter(l) == IF trim(l) = <<>> THEN "" ELSE trim(l)[1]
Rest(l, k) == trim(SubSeq(trim(l), k + 1, Len(trim(l))))

\* The lines read so far are exactly ls, in this order
ReadExactly(ls) ==
    /\ Len(encountered) = Len(ls)
    /\ \A i \in DOMAIN ls : encountered[i].line = ls[i]

\* C2: the step that processes a `def_bool V` line while a component is active
\* leaves that component with the defaults list <<V>> and the type Bool,
\* whatever the list held before.
C2_DefBoolResets ==
    [][(ReadsLine /\ FirstLetter(TheLine) = "def_bool"
            /\ Top.component_name \in DOMAIN component)
        => /\ component'[Top.component_name].default_value = <<Rest(TheLine, 1)>>
           /\ component'[Top.component_name].value_type = "Bool"]_vars

\* C2 witness: a def_bool processed after two default lines of the same stanza
C2_Witness ==
    /\ ReadExactly(<<L_cfgFOO, L_defY, L_defY, L_defboolN>>)
    /\ pc = "parse"
    /\ Top.pos = 4
    /\ component[FOO].default_value = <<(<<"n">>)>>
    /\ component[FOO].value_type = "Bool"

\* This step processes one more line of the C file being scanned
CodeStep ==
    /\ pc = "walk" /\ scan # <<>> /\ scan' # <<>>
    /\ scan'[1].pos = scan[1].pos + 1
TheCodeLine == fs'[scan[1].path].lines[scan'[1].pos]

\* The guard a line opens, if it opens one
OpensGuard(l) ==
    \E i \in 1..(Len(l) - 3) : SubSeq(l, i, i + 3) = <<"#", "ifdef", " ", "CONFIG_">>
GuardName(l) ==
    LET i == CHOOSE j \in 1..(Len(l) - 3) :
                 SubSeq(l, j, j + 3) = <<"#", "ifdef", " ", "CONFIG_">>
    IN  trim(SubSeq(l, i + 4, Len(l)))
ClosesGuard(l) ==
    ~OpensGuard(l) /\ \E i \in 1..(Len(l) - 1) : SubSeq(l, i, i + 1) = <<"#", "endif">>

\* C3: a step that records a snippet for component x records the lines of the
\* file from the line with `#ifdef CONFIG_x` up to and including the `#endif`
\* just read, every line between them included, and records nothing for any
\* other component.
C3_SnippetIsWholeRegion ==
    [][CodeStep =>
        \A x \in DOMAIN component :
            component'[x].code_snippets # component[x].code_snippets =>
                LET ls == fs'[scan[1].path].lines
                    e == scan'[1].pos
                IN  /\ ClosesGuard(ls[e])
                    /\ \E b \in 1..e :
                          /\ OpensGuard(ls[b]) /\ GuardName(ls[b]) = x
                          /\ component'[x].code_snippets =
                                Append(component[x].code_snippets, SubSeq(ls, b, e))
                    /\ \A y \in DOMAIN component \ {x} :
                          component'[y].code_snippets = component[y].code_snippets]_vars

\* C4: a step starts the snippet buffer only on a guard that names a known
\* component and is pushed onto an empty guard stack; the `#endif` of a nested
\* guard records no snippet; a guard naming an unknown component leaves the
\* buffer as it is.
C4_BufferStartsOnEmptyStack ==
    [][CodeStep =>
        /\ (scan[1].snippet = <<>> /\ scan'[1].snippet # <<>>)
              => /\ OpensGuard(TheCodeLine)
                 /\ GuardName(TheCodeLine) \in DOMAIN component
                 /\ scan[1].ifdef_stack = <<>>
        /\ (ClosesGuard(TheCodeLine) /\ Len(scan[1].ifdef_stack) > 1)
              => \A x \in DOMAIN component :
                    component'[x].code_snippets = component[x].code_snippets
        /\ (OpensGuard(TheCodeLine) /\ GuardName(TheCodeLine) \notin DOMAIN component)
              => scan'[1].snippet = scan[1].snippet]_vars

\* The directories above a file, and whether a directory is named
\* linux-<version>
Ancestors(f) == {SubSeq(f, 1, i - 1) : i \in {j \in 2..Len(f) : f[j] = "/"}}
NamedLinux(d) ==
    LET n == <<"/", "linux-">> \o version
    IN  Len(d) >= Len(n) /\ SubSeq(d, Len(d) - Len(n) + 1, Len(d)) = n

\* The kernel root: the nearest directory above the entry file that is named
\* linux-<version>, the top of the path when there is none
KernelRoot ==
    LET named == {d \in Ancestors(kconfig_path) : NamedLinux(d)}
    IN  IF named = {} THEN <<>>
        ELSE CHOOSE d \in named : \A e \in named : Len(e) <= Len(d)

\* The path a `source` line names under the kernel root, its directory, and
\* whether it has the architecture segment
TargetOf(l) ==
    LET r == Rest(l, 1)
        q == IF Len(r) >= 2 /\ r[1] = "\"" /\ r[Len(r)] = "\""
             THEN SubSeq(r, 2, Len(r) - 1) ELSE r
    IN  KernelRoot \o <<"/">> \o q
DirOf(f) ==
    SubSeq(f, 1, (CHOOSE i \in 1..Len(f) :
                     f[i] = "/" /\ \A j \in (i + 1)..Len(f) : f[j] # "/") - 1)
HasArch(f) == \E i \in 1..(Len(f) - 2) : SubSeq(f, i, i + 2) = <<"/", "arch", "/">>

\* The files some `source` line read so far names
Sourced ==
    {TargetOf(encountered[i].line) :
        i \in {j \in DOMAIN encountered : FirstLetter(encountered[j].line) = "source"}}

\* C5: with check_all false, the step that processes a `source` line whose
\* target has no /arch/ segment changes neither the table nor code_dir, opens
\* no file and starts no nested call.
C5_NoDescentOutsideArch ==
    [][(ReadsLine /\ ~check_all /\ FirstLetter(TheLine) = "source"
            /\ ~HasArch(TargetOf(TheLine)))
        => /\ component' = component
           /\ code_dir' = code_dir
           /\ opened' = opened
           /\ Len(stack') = Len(stack)]_vars

\* C5 witness: the existing drivers/Kconfig was named and passed over
C5_Witness ==
    /\ ReadExactly(<<Src(T_drivers)>>)
    /\ ~check_all
    /\ pc = "parse" /\ Len(stack) = 1 /\ Top.pos = 1
    /\ fs[push(KernelPath, T_drivers)].kind = "file"
    /\ code_dir = {} /\ opened = {RootKconfig}

\* C6, as claimed: every directory of code_dir is the parent of a sourced
\* file that passed the filter and was opened and read.
C6_DirsOfFilesRead ==
    \A d \in code_dir :
        \E f \in Sourced :
            /\ DirOf(f) = d
            /\ check_all \/ HasArch(f)
            /\ f \in opened /\ fs[f].kind = "file"

\* C6, amended: every directory of code_dir is the parent of a sourced file
\* that exists, passed the filter and was handed to parse_kconfig_path, whether
\* or not that call could open it.
C6_DirsOfTargetsDescended ==
    \A d \in code_dir :
        \E f \in Sourced :
            /\ DirOf(f) = d
            /\ check_all \/ HasArch(f)
            /\ f \in opened /\ fs[f].kind \in {"file", "denied"}

\* C6 witness: the directory of a sourced file that could not be opened
C6_Witness ==
    /\ D_riscv \in code_dir
    /\ fs[push(KernelPath, T_socs)].kind = "denied"
    /\ push(KernelPath, T_socs) \in opened
    /\ \A f \in Sourced : DirOf(f) = D_riscv => fs[f].kind = "denied"

IsPrefix(a, b) == Len(a) <= Len(b) /\ SubSeq(b, 1, Len(a)) = a

TheBarStanzas ==
    <<[path |-> RootKconfig, line |-> L_cfgBAR],
      [path |-> RootKconfig, line |-> L_depBAZ],
      [path |-> RootKconfig, line |-> Src(T_socs)],
      [path |-> push(KernelPath, T_socs), line |-> L_cfgBAR],
      [path |-> push(KernelPath, T_socs), line |-> L_selQUX]>>

\* C7: the table has one record per name counted in total_components; a step
\* keeps every record there is and only extends its lists (a def_bool line
\* alone replaces the defaults); a header of a name already in the table only
\* adds one to its count; and the two BAR stanzas of two files give one record
\* with the attributes of both, in the order read.
C7_OneRecordPerName ==
    /\ [](total_components = Cardinality(DOMAIN component))
    /\ [][\A n \in DOMAIN component :
             /\ n \in DOMAIN component'
             /\ component'[n].count >= component[n].count
             /\ IsPrefix(component[n].depend, component'[n].depend)
             /\ IsPrefix(component[n].select, component'[n].select)
             /\ IsPrefix(component[n].code_snippets, component'[n].code_snippets)
             /\ \/ IsPrefix(component[n].default_value, component'[n].default_value)
                \/ ReadsLine /\ FirstLetter(TheLine) = "def_bool"]_vars
    /\ [][(ReadsLine /\ IsHeader(TheLine) /\ HeaderName(TheLine) \in DOMAIN component)
             => component' = [component EXCEPT ![HeaderName(TheLine)].count = @ + 1]]_vars
    /\ []((ParseFinished /\ encountered = TheBarStanzas)
             => component = (BAR :> [default_value |-> <<>>,
                                     select |-> <<(<<"QUX">>)>>,
                                     depend |-> <<(<<"BAZ">>)>>,
                                     value_type |-> "Value",
                                     count |-> 2,
                                     code_snippets |-> <<>>]))

\* C7 witness: both BAR stanzas are read and parse_kconfig has returned
C7_Witness ==
    /\ ParseFinished
    /\ encountered = TheBarStanzas
    /\ DOMAIN component = {BAR}
    /\ component[BAR].count = 2

IsAttribute(l) ==
    \/ FirstLetter(l) \in {"bool", "default", "def_bool", "select"}
    \/ Len(trim(l)) >= 3 /\ SubSeq(trim(l), 1, 3) = <<"depends", " ", "on">>

\* C8: a step that processes an attribute line adds no name to the table, and
\* changes nothing in the table when no component is active; a step that adds
\* a name processes a `config <name>` header line.
C8_AttributesCreateNothing ==
    [][/\ (ReadsLine /\ IsAttribute(TheLine))
             => /\ DOMAIN component' = DOMAIN component
                /\ Top.component_name \notin DOMAIN component => component' = component
       /\ DOMAIN component' # DOMAIN component
             => /\ ReadsLine /\ IsHeader(TheLine)
                /\ DOMAIN component' = DOMAIN component \cup {HeaderName(TheLine)}]_vars

\* C8 witness: every kind of attribute line read before any header
C8_Witness ==
    /\ pc = "parse" /\ Top.pos = 4
    /\ \E a \in {L_depBAZ, L_defY} :
          ReadExactly(<<L_bool, a, L_defboolN, L_selQUX>>)
    /\ Top.component_name \notin DOMAIN component
    /\ component = <<>>

\* The line before the one the innermost call is going to read is blank
AfterBlank == Top.pos >= 1 /\ trim(fs[Top.path].lines[Top.pos]) = <<>>

\* A line that starts with `config` and has no space after it
IsBareConfig(l) == FirstLetter(l) = "config" /\ ~IsHeader(l)

\* C9: the step that processes, right after a blank line, a line that starts
\* with `config` without the space leaves a record of the name it gives with
\* one more occurrence, and makes that name the current component.
C9_BareConfigIsHeader ==
    [][(ReadsLine /\ AfterBlank /\ IsBareConfig(TheLine))
        => LET n == Rest(TheLine, 1)
           IN  /\ n \in DOMAIN component'
               /\ component'[n].count =
                     (IF n \in DOMAIN component THEN component[n].count ELSE 0) + 1
               /\ stack'[Len(stack')].component_name = n]_vars

\* Since the last blank line of the file, the innermost call has processed a
\* line that is neither blank nor a comment
FlagConsumed ==
    LET ls == fs[Top.path].lines
    IN  \E j \in 1..Top.pos :
           /\ trim(ls[j]) # <<>> /\ FirstLetter(ls[j]) # "#"
           /\ \A k \in j..Top.pos : trim(ls[k]) # <<>>

\* C10: once a line that is neither blank nor a comment has followed the last
\* blank line, a line that starts with `config` without the space does not
\* change the current component.
C10_FlagIsOneShot ==
    [][(ReadsLine /\ FlagConsumed /\ IsBareConfig(TheLine))
        => stack'[Len(stack')].component_name = Top.component_name]_vars

\* The Makefile, or the entry Kconfig file, could not be opened or read
MakefileUnreadable ==
    LET m == fs[Makefile(args.kernel_path)]
    IN  pc # "start" /\ (m.kind \in {"absent", "denied"} \/ m.end = "error")
EntryUnreadable ==
    fs[kconfig_path].kind \in {"absent", "denied"} \/ fs[kconfig_path].end = "error"

\* C11: once the Makefile could not be opened or read, main has returned its
\* error; once the entry Kconfig file could not be opened or read, main runs
\* neither the correlation pass nor the report, and does not end normally.
C11_RootErrorIsFatal ==
    /\ MakefileUnreadable => pc = "error"
    /\ EntryUnreadable => pc \notin {"analyze", "walk", "print", "kconfig_code", "done"}

\* This step ends a nested call of parse_kconfig_path with an error: its file
\* could not be opened, or a read of it failed
OpenFails ==
    /\ ReadsLine /\ FirstLetter(TheLine) = "source"
    /\ check_all \/ HasArch(TargetOf(TheLine))
    /\ fs'[TargetOf(TheLine)].kind = "denied"
ReadFails ==
    /\ pc = "parse" /\ Len(stack) > 1
    /\ fs[Top.path].end # "error" /\ fs'[Top.path].end = "error"
Including == IF OpenFails THEN Len(stack) ELSE Len(stack) - 1

\* C12: when a sourced file cannot be opened, or a read of it fails, only that
\* call ends: resolution goes on, the including call is at the line after its
\* `source` line with its current component as it was, the calls around it are
\* as they were, and the table and code_dir keep what they held.
C12_ErrorEndsOneBranch ==
    [][(OpenFails \/ ReadFails)
        => /\ pc' = "parse"
           /\ Len(stack') = Including
           /\ stack' = [i \in 1..Including |->
                           IF i = Including THEN [stack[i] EXCEPT !.pos = @ + 1]
                           ELSE stack[i]]
           /\ component' = component
           /\ total_components' = total_components
           /\ code_dir \subseteq code_dir']_vars

\* C12 witness: Kconfig.socs broke off after its first line, and the entry
\* file went on to drivers/Kconfig; the stanza of each is in the table
C12_Witness ==
    /\ pc = "parse"
    /\ encountered = <<[path |-> RootKconfig, line |-> Src(T_socs)],
                       [path |-> push(KernelPath, T_socs), line |-> L_cfgBAR],
                       [path |-> RootKconfig, line |-> Src(T_drivers)],
                       [path |-> push(KernelPath, T_drivers), line |-> L_cfgBAR]>>
    /\ fs[push(KernelPath, T_socs)].end = "error"
    /\ Len(stack) = 2 /\ Top.path = push(KernelPath, T_drivers)
    /\ component[BAR].count = 2

\* C13: the step that processes a `source` line whose target does not
\* canonicalize panics: no call is started, code_dir, the table and the set of
\* opened files are as they were, and no step follows.
C13_CanonicalizeFailureAborts ==
    /\ [][(ReadsLine /\ FirstLetter(TheLine) = "source"
              /\ fs'[TargetOf(TheLine)].kind = "absent")
          => /\ pc' = "panic"
             /\ stack' = stack
             /\ code_dir' = code_dir
             /\ opened' = opened
             /\ component' = component]_vars
    /\ [][pc # "panic"]_vars

\* C13 witness: the entry file named a Kconfig.socs that does not exist, after
\* a stanza and before anything else
C13_Witness ==
    /\ pc = "panic"
    /\ ReadExactly(<<L_cfgBAR, Src(T_socs)>>)
    /\ fs[push(KernelPath, T_socs)].kind = "absent"
    /\ Len(stack) = 1 /\ Top.pos = 1
    /\ code_dir = {} /\ opened = {RootKconfig}

\* C14: the correlation pass runs only with --kconfig and --kconfig-code, in
\* the block that parsed first and after every call of parse_kconfig_path has
\* returned; with --kconfig-code and without --kconfig no Kconfig file is
\* opened or read and main ends by exit(1) or by the error of the Makefile;
\* a run builds and parses at most one KconfigCounter.
C14_CorrelateAfterParse ==
    /\ [](pc \in {"analyze", "walk"}
             => /\ args.kconfig /\ args.kconfig_code
                /\ pass = "kconfig_code"
                /\ stack = <<>>
                /\ kconfig_path \in opened)
    /\ []((args.kconfig_code /\ ~args.kconfig)
             => /\ opened = {} /\ encountered = <<>> /\ pass = "none"
                /\ pc \in {"start", "error", "code", "count", "kconfig",
                           "kconfig_code", "exit"})
    /\ [][pass' # pass => pass = "none"]_vars

\* C14 witness: a C file is scanned after both files of the tree were parsed
C14_Witness ==
    /\ pc = "walk" /\ scan # <<>> /\ scan[1].pos >= 1
    /\ args.kconfig /\ args.kconfig_code
    /\ ReadExactly(<<L_cfgFOO, Src(T_kernel)>>)
    /\ FOO \in DOMAIN component

\* C15: the step that processes an `#endif` line while the guard stack is
\* empty changes nothing but the position in the file: the stack, the buffer
\* and its count, the flag, the table and total_code_lines are as they were.
C15_EndifOnEmptyStack ==
    [][(CodeStep /\ ClosesGuard(TheCodeLine) /\ scan[1].ifdef_stack = <<>>)
        => /\ scan' = <<[scan[1] EXCEPT !.pos = @ + 1]>>
           /\ component' = component
           /\ total_code_lines' = total_code_lines]_vars

\* C15 witness: a second `#endif` after a region that was closed
C15_Witness ==
    /\ scan # <<>> /\ scan[1].pos = 3
    /\ fs[scan[1].path].lines = <<C_ifdefFOO, C_endif, C_endif>>
    /\ scan[1].ifdef_stack = <<>> /\ scan[1].snippet = <<>>
    /\ Len(component[FOO].code_snippets) = 1
    /\ total_code_lines = 1

\* C16: the step that ends the scan of a file whose guard stack is not empty
\* changes neither the table nor total_code_lines; the scan of a file starts
\* with an empty stack, an empty buffer and the flag down; and the tree whose
\* head.h opens a guard of FOO without closing it, and whose entry.c has an
\* `#endif`, ends with no snippet and no line counted.
C16_OpenGuardIsDropped ==
    /\ [][(pc = "walk" /\ scan # <<>> /\ scan' = <<>> /\ scan[1].ifdef_stack # <<>>)
             => /\ component' = component
                /\ total_code_lines' = total_code_lines]_vars
    /\ [][(scan = <<>> /\ scan' # <<>>)
             => /\ scan'[1].ifdef_stack = <<>>
                /\ scan'[1].snippet = <<>>
                /\ scan'[1].snippet_line_count = 0
                /\ ~scan'[1].in_config_block]_vars
    /\ []((/\ pc \in {"print", "done"} /\ pass = "kconfig_code"
           /\ fs[F_head].lines = <<C_ifdefFOO, C_x>>
           /\ fs[F_entry].lines = <<C_y, C_endif>>
           /\ {F_head, F_entry} \subseteq opened)
             => /\ component[FOO].code_snippets = <<>>
                /\ total_code_lines = 0)

\* C16 witness: entry.c is scanned to its `#endif` after head.h ended inside
\* the guard of FOO
C16_Witness ==
    /\ scan # <<>> /\ scan[1].path = F_entry /\ scan[1].pos = 2
    /\ fs[F_entry].lines = <<C_y, C_endif>>
    /\ fs[F_head].lines = <<C_ifdefFOO, C_x>> /\ F_head \in opened
    /\ component[FOO].code_snippets = <<>>
    /\ total_code_lines = 0

RECURSIVE SumLen(_)
SumLen(snippets) ==
    IF snippets = <<>> THEN 0 ELSE Len(Head(snippets)) + SumLen(Tail(snippets))

RECURSIVE StoredLines(_)
\* The lines of all the snippets of the components in S
StoredLines(S) ==
    IF S = {} THEN 0
    ELSE LET n == CHOOSE x \in S : TRUE
         IN  SumLen(component[n].code_snippets) + StoredLines(S \ {n})

\* C17: once the correlation pass is over, total_code_lines is the number of
\* lines of all the snippets stored in the table.
C17_TotalIsStoredLines ==
    (pass = "kconfig_code" /\ pc \in {"print", "done"})
        => total_code_lines = StoredLines(DOMAIN component)

\* C18: the step that processes a `source` line, in whichever file and at
\* whichever depth, looks at, records, opens and descends into no other path
\* than the one the line names under the kernel root, which is the nearest
\* directory above the entry file named linux-<version> and the top of the
\* path when there is none.
C18_OneRootForEverySource ==
    [][(ReadsLine /\ FirstLetter(TheLine) = "source")
        => LET t == TargetOf(TheLine)
           IN  /\ \A f \in DOMAIN fs : fs'[f].kind # fs[f].kind => f = t
               /\ opened' \subseteq opened \cup {t}
               /\ code_dir' \subseteq code_dir \cup {DirOf(t)}
               /\ Len(stack') > Len(stack) => stack'[Len(stack')].path = t]_vars

\* C18 witness: a file that lies in a directory named linux-<version> below
\* the kernel root sourced arch/riscv/kernel/Kconfig, and the file of that
\* name under the kernel root was read
C18_Witness ==
    /\ pc = "parse" /\ Len(stack) = 3
    /\ stack[2].path = push(KernelPath, T_nested)
    /\ NamedLinux(parent(stack[2].path))
    /\ Top.path = push(KernelPath, T_kernel) /\ Top.pos = 1
    /\ FOO \in DOMAIN component

\* The revealed `source` lines that lead from one file to another: the line
\* was read in f, its target g passes the filter and is a file
Edge(f, g) ==
    /\ fs[f].kind = "file" /\ fs[g].kind = "file"
    /\ \E k \in DOMAIN encountered :
          /\ encountered[k].path = f
          /\ FirstLetter(encountered[k].line) = "source"
          /\ TargetOf(encountered[k].line) = g
          /\ check_all \/ HasArch(g)

RECURSIVE ReachFrom(_)
ReachFrom(S) ==
    LET more == S \cup {g \in KFiles : \E f \in S : Edge(f, g)}
    IN  IF more = S THEN S ELSE ReachFrom(more)

\* A file reached from the entry file is reached from itself
Cyclic ==
    \E f \in ReachFrom({kconfig_path}) :
        f \in ReachFrom({g \in KFiles : Edge(f, g)})

AllLinesProcessed ==
    \A k \in DOMAIN encountered :
        LET f == encountered[k].path
        IN  \A i \in DOMAIN fs[f].lines :
               \E j \in DOMAIN encountered :
                  encountered[j] = [path |-> f, line |-> fs[f].lines[i]]

Here == search[Len(search)]
StatIn(table, type) == IF type \in DOMAIN table THEN table[type] ELSE NoStat

\* No count of a type has gone down
StatsKept ==
    \A t \in DOMAIN file_count :
        /\ t \in DOMAIN file_count'
        /\ \A c \in {"files", "blank", "comment", "code"} :
              file_count'[t][c] >= file_count[t][c]

\* One more file of the type of e, and the lines of e when they were all read
CountedOnly(e) ==
    \A t \in DOMAIN file_count' :
        file_count'[t] = IF t = file_type(e)
                         THEN [StatIn(file_count, t) EXCEPT !.files = @ + 1]
                         ELSE StatIn(file_count, t)

\* The entry e is done with and search_dir goes on with the other entries of
\* the directory, after the walk of e when e is a directory that can be read
SiblingsLeft(e) ==
    /\ pc' = "count"
    /\ Len(search') >= Len(search)
    /\ search'[Len(search)] = [Here EXCEPT !.left = @ \ {e}]
    /\ \A i \in 1..(Len(search) - 1) : search'[i] = search[i]

\* search_dir returns with entries of the directory left: its caller goes on
\* with its own, and main goes on when there is no caller
DirectoryLeft ==
    /\ search' = SubSeq(search, 1, Len(search) - 1)
    /\ pc' = IF Len(search) = 1 THEN "kconfig" ELSE "count"

\* C20, as claimed: whatever happens to an entry, search_dir goes on with the
\* remaining entries of the same directory, and no count is lost.
C20_ErrorKeepsSiblings ==
    [][(pc = "count" /\ Here.left # {})
          => (StatsKept /\ \E e \in Here.left : SiblingsLeft(e))]_vars

\* C20, amended: an entry the iterator fails on and a directory, readable or
\* not, leave the counts alone and the remaining entries to be visited; a file
\* read to its end is counted with its lines and leaves them so too; a file
\* that cannot be opened or read is counted as a file, without lines, and ends
\* the walk of its directory, which goes on in the parent; no count is lost.
C20_FileErrorEndsDirectory ==
    [][(pc = "count" /\ Here.left # {})
          => /\ StatsKept
             /\ \E e \in Here.left :
                   \/ /\ file_count' = file_count
                      /\ SiblingsLeft(e)
                      /\ Len(search') > Len(search) => e \in Dirs /\ fs'[e].kind = "dir"
                   \/ /\ e \notin Dirs
                      /\ fs'[e].kind = "file" /\ fs'[e].end = "eof"
                      /\ StatIn(file_count', file_type(e)).files
                            = StatIn(file_count, file_type(e)).files + 1
                      /\ SiblingsLeft(e) /\ Len(search') = Len(search)
                   \/ /\ e \notin Dirs
                      /\ fs'[e].kind # "file" \/ fs'[e].end = "error"
                      /\ CountedOnly(e)
                      /\ DirectoryLeft]_vars

\* C20 witness: the Kconfig of arch/riscv/kernel could not be opened; entry.c
\* beside it was never counted, head.h in the parent directory was, after it
C20_Witness ==
    /\ pc = "kconfig" /\ args.code
    /\ fs[push(KernelPath, T_kernel)].kind = "denied"
    /\ fs[D_kernel].kind = "dir"
    /\ "TypeK" \in DOMAIN file_count /\ "TypeC" \notin DOMAIN file_count
    /\ "TypeH" \in DOMAIN file_count
    /\ file_count["TypeH"] = [files |-> 1, blank |-> 0, comment |-> 2, code |-> 1]

\* ---- the locals of parse_code
RECURSIVE GuardDepth(_, _)
\* How many guards are open after the first k lines of a file
GuardDepth(ls, k) ==
    IF k = 0 THEN 0
    ELSE LET d == GuardDepth(ls, k - 1)
         IN  IF OpensGuard(ls[k]) THEN d + 1
             ELSE IF ClosesGuard(ls[k]) /\ d > 0 THEN d - 1
             ELSE d

\* The last of the first k lines after which no guard was open
RegionStart(ls, k) ==
    CHOOSE a \in 0..k :
        /\ GuardDepth(ls, a) = 0
        /\ \A b \in (a + 1)..k : GuardDepth(ls, b) # 0

RECURSIVE IsSubseq(_, _)
\* The lines of s are lines of t, in the order of t
IsSubseq(s, t) ==
    IF s = <<>> THEN TRUE
    ELSE IF t = <<>> THEN FALSE
    ELSE IF Head(s) = Head(t) THEN IsSubseq(Tail(s), Tail(t))
    ELSE IsSubseq(s, Tail(t))

\* The in-block flag, the buffer and its count follow the guard stack
BufferFollowsStack ==
    scan # <<>> =>
        LET c == scan[1]
            ls == fs[c.path].lines
        IN  /\ c.in_config_block => c.ifdef_stack # <<>>
            /\ c.ifdef_stack = <<>> => c.snippet = <<>> /\ c.snippet_line_count = 0
            /\ Len(c.ifdef_stack) = GuardDepth(ls, c.pos)
            /\ c.snippet_line_count = Len(c.snippet)
            /\ IsSubseq(c.snippet, SubSeq(ls, RegionStart(ls, c.pos) + 1, c.pos))

\* Every snippet of a component begins with a line that opens its guard
SnippetsBeginWithOwnGuard ==
    \A x \in DOMAIN component :
        \A i \in DOMAIN component[x].code_snippets :
            LET s == component[x].code_snippets[i]
            IN  s # <<>> /\ OpensGuard(s[1]) /\ GuardName(s[1]) = x

\* C21: after every line of parse_code the in-block flag implies a non-empty
\* guard stack and an empty guard stack implies an empty buffer with count 0;
\* the buffer holds lines of the top-level guard region that is open and of
\* no other; a snippet that is recorded is that buffer, for one component, and
\* begins with a line `#ifdef CONFIG_` of that component.
C21_BufferFollowsGuardStack ==
    /\ [](BufferFollowsStack /\ SnippetsBeginWithOwnGuard)
    /\ [][CodeStep =>
            \A x \in DOMAIN component :
                component'[x].code_snippets # component[x].code_snippets =>
                    /\ component'[x].code_snippets =
                          Append(component[x].code_snippets, scan[1].snippet)
                    /\ scan'[1].ifdef_stack = <<>>
                    /\ \A y \in DOMAIN component \ {x} :
                          component'[y].code_snippets = component[y].code_snippets]_vars

\* C21 witness: a file with two top-level regions guarded by FOO gave FOO two
\* snippets, one for each region
C21_Witness ==
    /\ FOO \in DOMAIN component
    /\ component[FOO].code_snippets = << <<C_ifdefFOO, C_x>>, <<C_ifdefFOO, C_y>> >>
    /\ scan # <<>> /\ scan[1].ifdef_stack = <<>> /\ scan[1].pos = 6

\* ---- the pass of analyze_code
\* parse_code is called on a file
ScanStarts == pc = "walk" /\ scan = <<>> /\ scan' # <<>>

\* C22: parse_code is called on no file it was called on before, and no more
\* lines are counted in total_code_lines than the C files hold, whatever
\* directories the candidate set holds.
C22_FileScannedOnce ==
    /\ [][ScanStarts => scan'[1].path \notin opened]_vars
    /\ [](total_code_lines <= SumLines(fs, CFiles))

\* ---- the locals of parse_kconfig_path
\* The current component and the blank flag of a call
Context(fr) == <<fr.component_name, fr.update>>

\* C23: a call of parse_kconfig_path starts with no current component and the
\* blank flag clear; whatever a step does, the calls that wait for a descent
\* keep their current component and blank flag, and the including call has
\* them unchanged after its `source` line, whether the descent was made and
\* has returned or the file could not be opened; an attribute line changes no
\* record but that of the current component of the call that reads it.
C23_ContextIsLocal ==
    [][(pc = "parse" /\ stack # <<>>) =>
          /\ \A i \in 1..(Len(stack) - 1) :
                i \in DOMAIN stack' => Context(stack'[i]) = Context(stack[i])
          /\ Len(stack') > Len(stack) =>
                /\ Context(stack'[Len(stack')]) = <<<<>>, FALSE>>
                /\ Context(stack'[Len(stack)]) = Context(Top)
          /\ (ReadsLine /\ FirstLetter(TheLine) = "source" /\ Len(stack') = Len(stack))
                => Context(stack'[Len(stack')]) = Context(Top)
          /\ (ReadsLine /\ IsAttribute(TheLine)) =>
                /\ DOMAIN component' = DOMAIN component
                /\ \A x \in DOMAIN component :
                      x # Top.component_name => component'[x] = component[x]]_vars

\* C23 witness: with the blank flag set and FOO current, the including file
\* sourced a file that begins with `select QUX`, which went to no record, and
\* has a header of BAR; `bool` after the `source` line went to FOO
C23_Witness ==
    /\ ParseFinished
    /\ fs[RootKconfig].lines = <<L_cfgFOO, L_blank, Src(T_socs), L_bool>>
    /\ DOMAIN component = {FOO, BAR}
    /\ component[FOO].value_type = "Bool" /\ component[BAR].value_type # "Bool"
    /\ component[FOO].select = <<>> /\ component[BAR].select = <<>>

====
